---- MODULE Spec2Model ----
(***************************************************************************)
(* Lightweight LDAP server: the session loop of a connection               *)
(* (infrastructure.rs), the protocol controller (controller.rs), the       *)
(* add-entry transaction and DN resolution (service/entry.rs), the schema  *)
(* service (service/schema.rs) and the in-memory entry repository behind   *)
(* one mutex (db.rs).                                                      *)
(*                                                                         *)
(* Strings that are parsed or rendered (DN text, attribute values) are     *)
(* sequences of tokens: the separators ",", "+", "=" and atoms (maximal    *)
(* runs of other characters).  Splitting and joining act on tokens exactly *)
(* as str::split, str::split_once and format! act on characters.           *)
(*                                                                         *)
(* Every repository operation locks the mutex for its own duration only,   *)
(* so one step of a connection holds at most one repository operation      *)
(* together with the local computation that follows it.  find_by_dn reads  *)
(* the repository in one step.                                             *)
(***************************************************************************)
EXTENDS Integers, Sequences, FiniteSets, TLC

VARIABLES
    entries,   \* InMemLdapDb.entries: key -> Entry
    pc,        \* per connection: position in LdapTcpConnection::run / add_entry
    msg,       \* per connection: the LdapMessage read last (Nothing before the first)
    loc,       \* per connection: locals of add_entry in progress
    out,       \* per connection: the messages written since msg was read
    reqs,      \* number of messages read so far, over all connections
    effects,   \* per connection: repository writes made while handling msg
    okAdds,    \* history: normalised DN -> number of Adds answered Success
    schema,    \* InMemSchemaDb: the attribute types and object classes loaded
    stream     \* per connection: the bytes of the TcpStream, where the framer
               \* is followed byte by byte (elsewhere a read yields a message)

vars == <<entries, pc, msg, loc, out, reqs, effects, okAdds, schema, stream>>

----------------------------------------------------------------------------
(* Bounds *)

NumConns == 2
MaxReqs == 3
MaxId == 3
MaxMsgId == 2

Conns == 1..NumConns
IdSpace == 0..MaxId
MsgIds == 1..MaxMsgId

----------------------------------------------------------------------------
(* Values *)

\* Option<T>: a sequence of no or one element
Nothing == <<>>

Some(x) == <<x>>

\* Bytes: either the text they decode to as UTF-8, or not UTF-8 at all
Utf8(text) == [utf8 |-> TRUE, text |-> text]

NotUtf8 == [utf8 |-> FALSE, text |-> <<>>]

ROOT_ID_U64 == 0

root_identifier == ROOT_ID_U64

\* Entry::default(): no id, parent ID::default(), nothing else
DefaultEntry ==
    [_id |-> Nothing, parent |-> 0, children |-> {}, object_classes |-> {},
     attributes |-> <<>>]

Str(s) == <<s>>

----------------------------------------------------------------------------
(* Schema repository (immutable after start-up) *)

SchemaAttributes ==
    { [numericoid |-> "cn-oid", names |-> {"cn", "commonName"}, single_value |-> FALSE],
      [numericoid |-> "sn-oid", names |-> {"sn"}, single_value |-> FALSE],
      [numericoid |-> "dc-oid", names |-> {"dc"}, single_value |-> FALSE] }

SchemaObjectClasses ==
    { [numericoid |-> "person-oid", names |-> {"person"}, kind |-> "Structural",
       must_attrs |-> {"cn-oid"}, may_attrs |-> {"sn-oid"}] }

\* bootstrap entries: root (dc-oid=dev, one child) and its child (dc-oid=georgiboy)
SeedEntries ==
    (0 :> [_id |-> Some(0), parent |-> 0, children |-> {1}, object_classes |-> {},
           attributes |-> ("dc-oid" :> {Str("dev")})])
    @@
    (1 :> [_id |-> Some(1), parent |-> 0, children |-> {}, object_classes |-> {},
           attributes |-> ("dc-oid" :> {Str("georgiboy")})])

\* InMemLdapDb::new(): no entries
EmptyEntries == <<>>

\* InMemSchemaDb::new on the bootstrap definitions
BootstrapSchema ==
    [attributes |-> SchemaAttributes, object_classes |-> SchemaObjectClasses]

get_attribute(oid) == {a \in schema.attributes : a.numericoid = oid}

get_object_class(oid) == {o \in schema.object_classes : o.numericoid = oid}

\* name is a text; a schema name is one atom
find_attribute_by_name(name) ==
    {a \in schema.attributes : Len(name) = 1 /\ name[1] \in a.names}

find_object_class_by_name(name) ==
    {o \in schema.object_classes : Len(name) = 1 /\ name[1] \in o.names}

----------------------------------------------------------------------------
(* Text: split, split_once *)

RECURSIVE IndexOf(_, _, _)
\* first position >= i of token sep in text, 0 if none
IndexOf(text, sep, i) ==
    IF i > Len(text) THEN 0
    ELSE IF text[i] = sep THEN i
    ELSE IndexOf(text, sep, i + 1)

RECURSIVE Split(_, _)
\* str::split(sep): the pieces between separators; one (empty) piece for ""
Split(text, sep) ==
    LET k == IndexOf(text, sep, 1) IN
    IF k = 0 THEN <<text>>
    ELSE <<SubSeq(text, 1, k - 1)>> \o Split(SubSeq(text, k + 1, Len(text)), sep)

\* str::split_once(sep): Nothing, or <<before, after>> of the first separator
SplitOnce(text, sep) ==
    LET k == IndexOf(text, sep, 1) IN
    IF k = 0 THEN Nothing
    ELSE <<SubSeq(text, 1, k - 1), SubSeq(text, k + 1, Len(text))>>

----------------------------------------------------------------------------
(* entity/dn.rs, entity/entry.rs *)

\* DN::parent_dn: the DN without its first RDN
parent_dn(dn) == IF Len(dn) = 0 THEN <<>> ELSE Tail(dn)

RECURSIVE RdnToString(_)
\* Display for Rdn: oid=val joined by "+"
RdnToString(rdn) ==
    IF Len(rdn) = 0 THEN <<>>
    ELSE <<rdn[1][1], "=">> \o rdn[1][2]
         \o (IF Len(rdn) = 1 THEN <<>> ELSE <<"+">> \o RdnToString(Tail(rdn)))

RECURSIVE DnToString(_)
\* Display for DN: the RDNs joined by ","
DnToString(dn) ==
    IF Len(dn) = 0 THEN <<>>
    ELSE RdnToString(dn[1])
         \o (IF Len(dn) = 1 THEN <<>> ELSE <<",">> \o DnToString(Tail(dn)))

\* Entry::matches_rdn: some (oid, val) of the RDN is a value of the entry
matches_rdn(entry, rdn) ==
    \E i \in 1..Len(rdn) :
        /\ rdn[i][1] \in DOMAIN entry.attributes
        /\ rdn[i][2] \in entry.attributes[rdn[i][1]]

\* EntryBuilder::add_attr_val / add_attr_vals on an attribute map
AddAttrVals(attrs, oid, vals) ==
    IF oid \in DOMAIN attrs
    THEN [attrs EXCEPT ![oid] = @ \cup vals]
    ELSE attrs @@ (oid :> vals)

RECURSIVE AddRdnAttrs(_, _)
AddRdnAttrs(attrs, rdn) ==
    IF Len(rdn) = 0 THEN attrs
    ELSE AddRdnAttrs(AddAttrVals(attrs, rdn[1][1], {rdn[1][2]}), Tail(rdn))

----------------------------------------------------------------------------
(* commands.rs *)

RECURSIVE CollectAttributes(_, _)
\* the loop of TryFrom<&AddRequest>: the same name again unions the values
CollectAttributes(attrs, acc) ==
    IF Len(attrs) = 0 THEN acc
    ELSE LET a == attrs[1]
             vals == {a.vals[i].text : i \in 1..Len(a.vals)}
         IN CollectAttributes(Tail(attrs), AddAttrVals(acc, a.type.text, vals))

\* the conversion checking the DN bytes only
AddEntryCommandDnOnly(req) ==
    IF req.entry.utf8
    THEN Some([dn |-> req.entry.text,
               attributes |-> CollectAttributes(req.attributes, <<>>)])
    ELSE Nothing

\* TryFrom<&AddRequest> for AddEntryCommand: Nothing stands for InvalidAddRequest
AddEntryCommand(req) ==
    IF /\ req.entry.utf8
       /\ \A i \in 1..Len(req.attributes) :
            /\ req.attributes[i].type.utf8
            /\ \A j \in 1..Len(req.attributes[i].vals) : req.attributes[i].vals[j].utf8
    THEN Some([dn |-> req.entry.text,
               attributes |-> CollectAttributes(req.attributes, <<>>)])
    ELSE Nothing

----------------------------------------------------------------------------
(* service/schema.rs *)

\* the attribute a name resolves to (names are unique in the schema)
AttributeOidByName(name) ==
    (CHOOSE a \in find_attribute_by_name(name) : TRUE).numericoid

ObjectClassOidByName(name) ==
    (CHOOSE o \in find_object_class_by_name(name) : TRUE).numericoid

\* create_normalised_rdn: Nothing stands for the Err
create_normalised_rdn(rdn_str) ==
    LET pieces == Split(rdn_str, "+")
        pair(i) == SplitOnce(pieces[i], "=")
    IN IF \A i \in 1..Len(pieces) :
            /\ pair(i) # Nothing
            /\ find_attribute_by_name(pair(i)[1]) # {}
       THEN Some([i \in 1..Len(pieces) |->
                    <<AttributeOidByName(pair(i)[1]), pair(i)[2]>>])
       ELSE Nothing

\* create_normalised_dn: Nothing stands for InvalidDN
create_normalised_dn(dn_str) ==
    LET pieces == Split(dn_str, ",")
        rdn(i) == create_normalised_rdn(pieces[i])
    IN IF \A i \in 1..Len(pieces) : rdn(i) # Nothing
       THEN Some([i \in 1..Len(pieces) |-> rdn(i)[1]])
       ELSE Nothing

ObjectClassKey == Str("objectClass")

\* get_normalised_obj_classes: Nothing stands for UnknownObjectClass
get_normalised_obj_classes(attributes) ==
    IF /\ ObjectClassKey \in DOMAIN attributes
       /\ \A name \in attributes[ObjectClassKey] : find_object_class_by_name(name) # {}
    THEN Some({ObjectClassOidByName(name) : name \in attributes[ObjectClassKey]})
    ELSE Nothing

\* get_normalised_attributes: the possible results; Nothing stands for
\* UnknownAttribute.  attrs.insert replaces, so of two names of one attribute
\* the one the HashMap yields last decides the values.
get_normalised_attributes(attributes) ==
    LET names == DOMAIN attributes \ {ObjectClassKey}
        oids == {AttributeOidByName(n) : n \in {m \in names : find_attribute_by_name(m) # {}}}
        cands(oid) == {attributes[n] : n \in {m \in names : find_attribute_by_name(m) # {}
                                                   /\ AttributeOidByName(m) = oid}}
    IN IF \E n \in names : find_attribute_by_name(n) = {}
       THEN {Nothing}
       ELSE {Some(f) : f \in {g \in [oids -> {attributes[n] : n \in names}] :
                                \A oid \in oids : g[oid] \in cands(oid)}}

\* the per-attribute validation without the test of is_single
ValidateEntryAttributeIgnoresSingle(attribute, is_must, values) ==
    IF is_must /\ Cardinality(values) = 0 THEN "InvalidEntry"
    ELSE "Ok"

\* validate_entry_attribute (is_must is true at both call sites)
validate_entry_attribute(attribute, is_must, values) ==
    IF is_must /\ Cardinality(values) = 0 THEN "InvalidEntry"
    ELSE IF attribute.single_value /\ Cardinality(values) > 1 THEN "InvalidEntry"
    ELSE "Ok"

\* one turn of a loop of validate_entry_attributes over an attribute OID
ValidateOne(oid, values) ==
    IF get_attribute(oid) = {} THEN "InvalidSchema"
    ELSE validate_entry_attribute(CHOOSE a \in get_attribute(oid) : TRUE, TRUE, values)

\* the loop over the MUST attributes passing over those the entry lacks
ValidateEntryAttributesSkipsMissing(entry, obj_classes) ==
    LET e_attrs == entry.attributes
        must_attrs == UNION {oc.must_attrs : oc \in obj_classes}
        may_attrs == UNION {oc.may_attrs : oc \in obj_classes}
        must(oid) == IF oid \notin DOMAIN e_attrs THEN "Ok"
                     ELSE ValidateOne(oid, e_attrs[oid])
        may(oid) == IF oid \notin may_attrs THEN "InvalidEntry"
                    ELSE ValidateOne(oid, e_attrs[oid])
        mustErrs == {must(oid) : oid \in must_attrs} \ {"Ok"}
        mayErrs == {may(oid) : oid \in DOMAIN e_attrs \ must_attrs} \ {"Ok"}
    IN IF mustErrs # {} THEN mustErrs
       ELSE IF mayErrs # {} THEN mayErrs
       ELSE {"Ok"}

\* validate_entry_attributes: the possible results (the first failure in the
\* iteration order of the sets is the one returned)
validate_entry_attributes(entry, obj_classes) ==
    LET e_attrs == entry.attributes
        must_attrs == UNION {oc.must_attrs : oc \in obj_classes}
        may_attrs == UNION {oc.may_attrs : oc \in obj_classes}
        must(oid) == IF oid \notin DOMAIN e_attrs THEN "InvalidEntry"
                     ELSE ValidateOne(oid, e_attrs[oid])
        may(oid) == IF oid \notin may_attrs THEN "InvalidEntry"
                    ELSE ValidateOne(oid, e_attrs[oid])
        mustErrs == {must(oid) : oid \in must_attrs} \ {"Ok"}
        mayErrs == {may(oid) : oid \in DOMAIN e_attrs \ must_attrs} \ {"Ok"}
    IN IF mustErrs # {} THEN mustErrs
       ELSE IF mayErrs # {} THEN mayErrs
       ELSE {"Ok"}

\* validate_entry: the possible results
validate_entry(entry) ==
    LET resolved == UNION {get_object_class(oid) : oid \in entry.object_classes}
        structural_count == Cardinality({o \in resolved : o.kind = "Structural"})
    IN IF \E oid \in entry.object_classes : get_object_class(oid) = {}
       THEN {"InvalidEntry"}
       ELSE IF structural_count # 1 THEN {"InvalidEntry"}
       ELSE validate_entry_attributes(entry, resolved)

----------------------------------------------------------------------------
(* db.rs: EntryRepository for Arc<Mutex<InMemLdapDb>> *)

\* get_root_entry: entries.entry(root).or_default() leaves a default entry
\* behind when the repository held no root
WithRoot(ents) ==
    IF root_identifier \in DOMAIN ents THEN ents
    ELSE ents @@ (root_identifier :> DefaultEntry)

get_root_entry(ents) == WithRoot(ents)[root_identifier]

\* get_by_id: Option<Entry>
get_by_id(ents, id) == IF id \in DOMAIN ents THEN Some(ents[id]) ELSE Nothing

\* save, the map after it: the entry (stamped with id if it had none) is
\* inserted under its ID
SaveMap(ents, entry, id) ==
    LET key == IF entry._id = Nothing THEN id ELSE entry._id[1]
        stamped == [entry EXCEPT !._id = Some(key)]
    IN IF key \in DOMAIN ents THEN [ents EXCEPT ![key] = stamped]
       ELSE ents @@ (key :> stamped)

\* save, its return value: res.unwrap_or(entry), the value the map held
\* before under that ID if there was one
SaveReturn(ents, entry, id) ==
    LET key == IF entry._id = Nothing THEN id ELSE entry._id[1]
    IN IF key \in DOMAIN ents THEN ents[key]
       ELSE [entry EXCEPT !._id = Some(key)]

----------------------------------------------------------------------------
(* service/entry.rs: DN resolution *)

FindRes(tag, entry, dn) == [tag |-> tag, entry |-> entry, dn |-> dn]

\* the test of is_found inverted
IsFoundInverted(res) == res.tag # "Found"

IsFound(res) == res.tag = "Found"

RECURSIVE FindDnRecursiveFirstChild(_, _, _)
\* the loop over the children returning what the first child yields
FindDnRecursiveFirstChild(ents, curr_entry, rdns) ==
    IF Len(rdns) = 1 THEN
        IF matches_rdn(curr_entry, rdns[1])
        THEN {FindRes("Found", Some(curr_entry), <<>>)}
        ELSE {FindRes("NotFound", Nothing, <<>>)}
    ELSE IF Len(rdns) = 0 THEN {FindRes("Panic", Nothing, <<>>)}
    ELSE IF ~matches_rdn(curr_entry, rdns[Len(rdns)])
    THEN {FindRes("NotFound", Nothing, <<>>)}
    ELSE
        LET next_slice == SubSeq(rdns, 1, Len(rdns) - 1)
            children == curr_entry.children
            res(child_id) ==
                IF get_by_id(ents, child_id) = Nothing
                THEN {FindRes("InvalidEntry", Nothing, <<>>)}
                ELSE FindDnRecursiveFirstChild(ents, get_by_id(ents, child_id)[1],
                                               next_slice)
            first == UNION {res(child_id) : child_id \in children}
        IN IF children = {}
           THEN {FindRes("NotFound", Nothing, <<rdns[Len(rdns)]>>)}
           ELSE {IF r.tag = "NotFound"
                 THEN FindRes("NotFound", Nothing, Append(r.dn, rdns[Len(rdns)]))
                 ELSE r : r \in first}

RECURSIVE FindDnRecursiveLastOnly(_, _, _)
\* the NotFound after the loop carrying rdns.last() alone
FindDnRecursiveLastOnly(ents, curr_entry, rdns) ==
    IF Len(rdns) = 1 THEN
        IF matches_rdn(curr_entry, rdns[1])
        THEN {FindRes("Found", Some(curr_entry), <<>>)}
        ELSE {FindRes("NotFound", Nothing, <<>>)}
    ELSE IF Len(rdns) = 0 THEN {FindRes("Panic", Nothing, <<>>)}
    ELSE IF ~matches_rdn(curr_entry, rdns[Len(rdns)])
    THEN {FindRes("NotFound", Nothing, <<>>)}
    ELSE
        LET next_slice == SubSeq(rdns, 1, Len(rdns) - 1)
            children == curr_entry.children
            res(child_id) ==
                IF get_by_id(ents, child_id) = Nothing
                THEN {FindRes("InvalidEntry", Nothing, <<>>)}
                ELSE FindDnRecursiveLastOnly(ents, get_by_id(ents, child_id)[1],
                                             next_slice)
            all == UNION {res(child_id) : child_id \in children}
            ending == {r \in all : r.tag # "NotFound"}
        IN ending \cup
           (IF \A child_id \in children : \E r \in res(child_id) : r.tag = "NotFound"
            THEN {FindRes("NotFound", Nothing, <<rdns[Len(rdns)]>>)}
            ELSE {})

RECURSIVE find_dn_recursive(_, _, _)
\* The possible results on the repository ents: Found(entry), NotFound(dn),
\* the dangling-child InvalidEntry, or the panic of rdns.last().unwrap() on an
\* empty slice.  The children are a HashSet, iterated in any order: the first
\* child whose subtree is Found or fails ends the loop, and the NotFound
\* returned after the loop carries the partial DN of the child iterated last.
find_dn_recursive(ents, curr_entry, rdns) ==
    IF Len(rdns) = 1 THEN
        IF matches_rdn(curr_entry, rdns[1])
        THEN {FindRes("Found", Some(curr_entry), <<>>)}
        ELSE {FindRes("NotFound", Nothing, <<>>)}
    ELSE IF Len(rdns) = 0 THEN {FindRes("Panic", Nothing, <<>>)}
    ELSE IF ~matches_rdn(curr_entry, rdns[Len(rdns)])
    THEN {FindRes("NotFound", Nothing, <<>>)}
    ELSE
        LET next_slice == SubSeq(rdns, 1, Len(rdns) - 1)
            children == curr_entry.children
            res(child_id) ==
                IF get_by_id(ents, child_id) = Nothing
                THEN {FindRes("InvalidEntry", Nothing, <<>>)}
                ELSE find_dn_recursive(ents, get_by_id(ents, child_id)[1], next_slice)
            all == UNION {res(child_id) : child_id \in children}
            ending == {r \in all : r.tag # "NotFound"}
            last == IF children = {} THEN {<<>>}
                    ELSE {r.dn : r \in {x \in all : x.tag = "NotFound"}}
        IN ending \cup
           (IF \A child_id \in children : \E r \in res(child_id) : r.tag = "NotFound"
            THEN {FindRes("NotFound", Nothing, Append(dn, rdns[Len(rdns)])) : dn \in last}
            ELSE {})

\* find_by_dn on the repository after get_root_entry
find_by_dn(ents, dn) == find_dn_recursive(WithRoot(ents), get_root_entry(ents), dn)

----------------------------------------------------------------------------
(* errors.rs, controller.rs *)

\* the result codes of the two entry-lookup errors the wrong way round
LdapResultTryFromSwapped(err) ==
    CASE err = "InvalidAddRequest" -> Some("protocolError")
      [] err = "InvalidDN" -> Some("invalidDNSyntax")
      [] err = "EntryAlreadyExists" -> Some("noSuchObject")
      [] err = "EntryDoesNotExists" -> Some("entryAlreadyExists")
      [] err = "UnknownAttribute" -> Some("undefinedAttributeType")
      [] err = "UnknownObjectClass" -> Some("undefinedAttributeType")
      [] OTHER -> Nothing

\* an unknown object class answered with objectClassViolation
LdapResultTryFromClassViolation(err) ==
    CASE err = "InvalidAddRequest" -> Some("protocolError")
      [] err = "InvalidDN" -> Some("invalidDNSyntax")
      [] err = "EntryAlreadyExists" -> Some("entryAlreadyExists")
      [] err = "EntryDoesNotExists" -> Some("noSuchObject")
      [] err = "UnknownAttribute" -> Some("undefinedAttributeType")
      [] err = "UnknownObjectClass" -> Some("objectClassViolation")
      [] OTHER -> Nothing

\* TryFrom<LdapError> for LdapResult: the result code, Nothing for the Err
LdapResultTryFrom(err) ==
    CASE err = "InvalidAddRequest" -> Some("protocolError")
      [] err = "InvalidDN" -> Some("invalidDNSyntax")
      [] err = "EntryAlreadyExists" -> Some("entryAlreadyExists")
      [] err = "EntryDoesNotExists" -> Some("noSuchObject")
      [] err = "UnknownAttribute" -> Some("undefinedAttributeType")
      [] err = "UnknownObjectClass" -> Some("undefinedAttributeType")
      [] OTHER -> Nothing

Response(message_id, op, code) == [message_id |-> message_id, op |-> op, code |-> code]

\* what send_msg writes for an LdapResult::new(code, matched_dn, diagnostic_message)
\* that no LdapMessage wraps: a PDU without message_id
BareLdapResult(code, matched_dn, diagnostic_message) ==
    [message_id |-> Nothing, op |-> "LdapResult", code |-> code,
     matched_dn |-> matched_dn, diagnostic_message |-> diagnostic_message]

----------------------------------------------------------------------------
(* The requests a client sends *)

Attr(type, vals) == [type |-> Utf8(Str(type)), vals |-> vals]

Person == Attr("objectClass", <<Utf8(Str("person"))>>)

AddRequest(dn, attributes) == [entry |-> dn, attributes |-> attributes]

\* cn=a,dc=dev
DnA == <<"cn", "=", "a", ",", "dc", "=", "dev">>

\* cn=b,dc=dev
DnB == <<"cn", "=", "b", ",", "dc", "=", "dev">>

\* cn=c,cn=a,dc=dev
DnUnderA == <<"cn", "=", "c", ",", "cn", "=", "a", ",", "dc", "=", "dev">>

\* dc=georgiboy,dc=dev
DnSeedChild == <<"dc", "=", "georgiboy", ",", "dc", "=", "dev">>

\* dc=x,dc=dev
DnDcChild == <<"dc", "=", "x", ",", "dc", "=", "dev">>

\* cn=a
DnSingle == <<"cn", "=", "a">>

\* cn=a,dc=x
DnOtherRoot == <<"cn", "=", "a", ",", "dc", "=", "x">>

\* cn=d,cn=c,cn=a,dc=dev
DnDeep ==
    <<"cn", "=", "d", ",", "cn", "=", "c", ",", "cn", "=", "a", ",", "dc", "=", "dev">>

\* cn=x,dc=dev
DnX == <<"cn", "=", "x", ",", "dc", "=", "dev">>

\* sn=s,dc=dev
DnSn == <<"sn", "=", "s", ",", "dc", "=", "dev">>

AddRequests ==
    { AddRequest(Utf8(DnA), <<Person>>),
      AddRequest(Utf8(DnB), <<Person, Attr("sn", <<Utf8(Str("s"))>>)>>),
      AddRequest(Utf8(DnUnderA), <<Person>>),
      AddRequest(Utf8(DnSeedChild), <<Person>>),
      AddRequest(Utf8(DnDcChild), <<Person>>),
      AddRequest(Utf8(DnSingle), <<Person>>),
      AddRequest(Utf8(DnOtherRoot), <<Person>>),
      AddRequest(Utf8(Str("bad")), <<Person>>),
      AddRequest(Utf8(DnB), <<>>),
      AddRequest(Utf8(DnB), <<Person, Attr("foo", <<Utf8(Str("x"))>>)>>),
      AddRequest(NotUtf8, <<Person>>),
      AddRequest(Utf8(DnA), <<Person, [type |-> NotUtf8, vals |-> <<Utf8(Str("x"))>>]>>),
      AddRequest(Utf8(DnA), <<Person, Attr("sn", <<NotUtf8>>)>>),
      AddRequest(Utf8(DnSn), <<Person>>),
      AddRequest(Utf8(DnA), <<Person, Attr("cn", <<Utf8(Str("x"))>>)>>),
      AddRequest(Utf8(DnDeep), <<Person>>),
      AddRequest(Utf8(DnX), <<Person>>),
      AddRequest(Utf8(DnB), <<Person, Attr("cn", <<Utf8(Str("p"))>>),
                              Attr("commonName", <<Utf8(Str("q"))>>)>>) }

Message(message_id, op, req) == [message_id |-> message_id, op |-> op, req |-> req]

\* DelRequest stands for every ProtocolOp the loop has no arm for
Messages ==
    {Message(i, "AddRequest", Some(r)) : i \in MsgIds, r \in AddRequests}
    \cup {Message(i, op, Nothing) :
            i \in MsgIds,
            op \in {"BindRequest", "SearchRequest", "UnbindRequest", "DelRequest"}}

----------------------------------------------------------------------------
(* State *)

NoLoc ==
    [dn |-> <<>>, attributes |-> <<>>, parent |-> Nothing, entry |-> Nothing,
     dn_res |-> "", parent_res |-> "", result |-> "", ret |-> Nothing, err_dn |-> Nothing,
     frames |-> <<>>]

\* no bytes followed: what the client wrote (pdus), what is still unread (rest),
\* the buffers read_msg handed to the decoder (bufs)
NoStream == [pdus |-> <<>>, rest |-> <<>>, bufs |-> <<>>]

Init ==
    /\ entries \in {EmptyEntries, SeedEntries}
    /\ pc = [c \in Conns |-> "read"]
    /\ msg = [c \in Conns |-> Nothing]
    /\ loc = [c \in Conns |-> NoLoc]
    /\ out = [c \in Conns |-> <<>>]
    /\ reqs = 0
    /\ effects = [c \in Conns |-> {}]
    /\ okAdds = <<>>
    /\ schema = BootstrapSchema
    /\ stream = [c \in Conns |-> NoStream]

\* the handler has returned res: the loop goes on to send_msg
Return(c, l, res) ==
    /\ loc' = [loc EXCEPT ![c] = [l EXCEPT !.result = res]]
    /\ pc' = [pc EXCEPT ![c] = "send"]

\* the thread of the connection panics
Panic(c, l) ==
    /\ loc' = [loc EXCEPT ![c] = l]
    /\ pc' = [pc EXCEPT ![c] = "panicked"]

\* get_root_entry as part of a step of c: the map after it, and what c wrote
RootEffect(c) ==
    IF root_identifier \in DOMAIN entries THEN effects[c]
    ELSE effects[c] \cup {"create_root"}

----------------------------------------------------------------------------
(* infrastructure.rs: LdapTcpConnection::run, up to the handler's first      *)
(* repository operation                                                     *)

\* handle_add_request and add_entry up to create_normalised_dn
StartAdd(c, req) ==
    LET command == AddEntryCommand(req)
        dn == create_normalised_dn(command[1].dn)
    IN IF command = Nothing THEN Return(c, NoLoc, "InvalidAddRequest")
       ELSE IF dn = Nothing THEN Return(c, NoLoc, "InvalidDN")
       ELSE /\ loc' = [loc EXCEPT ![c] = [NoLoc EXCEPT !.dn = dn[1],
                                            !.attributes = command[1].attributes]]
            /\ pc' = [pc EXCEPT ![c] = "find_dn"]

\* the match on protocol_op with continue in the place of break
ReadMsgUnbindReadsOn(c, m) ==
    /\ pc[c] = "read"
    /\ reqs < MaxReqs
    /\ msg' = [msg EXCEPT ![c] = Some(m)]
    /\ CASE m.op = "AddRequest" -> StartAdd(c, m.req[1])
         [] m.op = "BindRequest" -> Return(c, NoLoc, "BindResponse")
         [] m.op = "SearchRequest" -> Panic(c, NoLoc)
         [] m.op = "UnbindRequest" ->
                /\ loc' = [loc EXCEPT ![c] = NoLoc]
                /\ pc' = [pc EXCEPT ![c] = "read"]
         [] OTHER -> Return(c, NoLoc, "NotImplemented")
    /\ reqs' = reqs + 1
    /\ out' = [out EXCEPT ![c] = <<>>]
    /\ effects' = [effects EXCEPT ![c] = {}]
    /\ UNCHANGED <<entries, okAdds, schema, stream>>

\* read_msg and the match on protocol_op
\* m is the message read
ReadMsg(c, m) ==
    /\ pc[c] = "read"
    /\ reqs < MaxReqs
    /\ msg' = [msg EXCEPT ![c] = Some(m)]
    /\ CASE m.op = "AddRequest" -> StartAdd(c, m.req[1])
         [] m.op = "BindRequest" -> Return(c, NoLoc, "BindResponse")
         [] m.op = "SearchRequest" -> Panic(c, NoLoc)
         [] m.op = "UnbindRequest" ->
                /\ loc' = [loc EXCEPT ![c] = NoLoc]
                /\ pc' = [pc EXCEPT ![c] = "done"]
         [] OTHER -> Return(c, NoLoc, "NotImplemented")
    /\ reqs' = reqs + 1
    /\ out' = [out EXCEPT ![c] = <<>>]
    /\ effects' = [effects EXCEPT ![c] = {}]
    /\ UNCHANGED <<entries, okAdds, schema, stream>>

\* read_msg when the decoder rejects the bytes of the PDU: the ? of run
\* returns with the error
ReadMsgDecodeError(c) ==
    /\ pc[c] = "read"
    /\ reqs < MaxReqs
    /\ msg' = [msg EXCEPT ![c] = Nothing]
    /\ loc' = [loc EXCEPT ![c] = [NoLoc EXCEPT !.result = "DecodeError"]]
    /\ pc' = [pc EXCEPT ![c] = "failed"]
    /\ reqs' = reqs + 1
    /\ out' = [out EXCEPT ![c] = <<>>]
    /\ effects' = [effects EXCEPT ![c] = {}]
    /\ UNCHANGED <<entries, okAdds, schema, stream>>

----------------------------------------------------------------------------
(* service/entry.rs: add_entry *)

\* find_by_dn(&dn.parent_dn()) in the place of find_by_dn(&dn)
AddFindDnOfParent(c) ==
    /\ pc[c] = "find_dn"
    /\ entries' = WithRoot(entries)
    /\ effects' = [effects EXCEPT ![c] = RootEffect(c)]
    /\ \E r \in find_by_dn(entries, parent_dn(loc[c].dn)) :
        LET l == [loc[c] EXCEPT !.dn_res = r.tag] IN
        IF r.tag = "InvalidEntry" THEN Return(c, l, "InvalidEntry")
        ELSE IF IsFound(r) THEN Return(c, l, "EntryAlreadyExists")
        ELSE /\ loc' = [loc EXCEPT ![c] = l]
             /\ pc' = [pc EXCEPT ![c] = "find_parent"]
    /\ UNCHANGED <<msg, out, reqs, okAdds, schema, stream>>

\* find_by_dn(&dn) and the is_found test
AddFindDn(c) ==
    /\ pc[c] = "find_dn"
    /\ entries' = WithRoot(entries)
    /\ effects' = [effects EXCEPT ![c] = RootEffect(c)]
    /\ \E r \in find_by_dn(entries, loc[c].dn) :
        LET l == [loc[c] EXCEPT !.dn_res = r.tag] IN
        IF r.tag = "InvalidEntry" THEN Return(c, l, "InvalidEntry")
        ELSE IF IsFound(r) THEN Return(c, l, "EntryAlreadyExists")
        ELSE /\ loc' = [loc EXCEPT ![c] = l]
             /\ pc' = [pc EXCEPT ![c] = "find_parent"]
    /\ UNCHANGED <<msg, out, reqs, okAdds, schema, stream>>

\* the values of the request in the place of the values of the RDN, for an
\* attribute both supply
BuildEntryRequestReplaces(dn, object_classes, attributes, parent) ==
    LET fromRdn == AddRdnAttrs(<<>>, dn[1])
        oids == DOMAIN attributes
        merged == [oid \in DOMAIN fromRdn \cup oids |->
                     IF oid \in oids THEN attributes[oid] ELSE fromRdn[oid]]
    IN [_id |-> Nothing, parent |-> parent._id[1], children |-> {},
        object_classes |-> object_classes, attributes |-> merged]

\* the entry add_entry builds for dn under parent
BuildEntry(dn, object_classes, attributes, parent) ==
    LET fromRdn == AddRdnAttrs(<<>>, dn[1])
        oids == DOMAIN attributes
        merged == [oid \in DOMAIN fromRdn \cup oids |->
                     (IF oid \in DOMAIN fromRdn THEN fromRdn[oid] ELSE {})
                     \cup (IF oid \in oids THEN attributes[oid] ELSE {})]
    IN [_id |-> Nothing, parent |-> parent._id[1], children |-> {},
        object_classes |-> object_classes, attributes |-> merged]

\* add_entry from the parent found to validate_entry
AfterParent(c, l, parent) ==
    LET oc == get_normalised_obj_classes(l.attributes) IN
    IF oc = Nothing THEN Return(c, l, "UnknownObjectClass")
    ELSE \E attrs \in get_normalised_attributes(l.attributes) :
        IF attrs = Nothing THEN Return(c, l, "UnknownAttribute")
        ELSE IF parent._id = Nothing THEN Panic(c, l)
        ELSE LET entry == BuildEntry(l.dn, oc[1], attrs[1], parent) IN
             \E v \in validate_entry(entry) :
                IF v # "Ok" THEN Return(c, l, v)
                ELSE /\ loc' = [loc EXCEPT ![c] = [l EXCEPT !.parent = Some(parent),
                                                            !.entry = Some(entry)]]
                     /\ pc' = [pc EXCEPT ![c] = "save_entry"]

\* find_by_dn(&dn.parent_dn()) and what follows it up to validate_entry
AddFindParent(c) ==
    /\ pc[c] = "find_parent"
    /\ entries' = WithRoot(entries)
    /\ effects' = [effects EXCEPT ![c] = RootEffect(c)]
    /\ \E r \in find_by_dn(entries, parent_dn(loc[c].dn)) :
        LET l == [loc[c] EXCEPT !.parent_res = r.tag] IN
        CASE r.tag = "Panic" -> Panic(c, l)
          [] r.tag = "InvalidEntry" -> Return(c, l, "InvalidEntry")
          [] r.tag = "NotFound" ->
                Return(c, [l EXCEPT !.err_dn = Some(DnToString(r.dn))],
                       "EntryDoesNotExists")
          [] r.tag = "Found" -> AfterParent(c, l, r.entry[1])
    /\ UNCHANGED <<msg, out, reqs, okAdds, schema, stream>>

\* save returning the stamped entry without inserting it
AddSaveEntryNotInserted(c, id) ==
    /\ pc[c] = "save_entry"
    /\ entries' = entries
    /\ loc' = [loc EXCEPT ![c].entry = Some([loc[c].entry[1] EXCEPT !._id = Some(id)])]
    /\ effects' = [effects EXCEPT ![c] = @ \cup {"save_entry"}]
    /\ pc' = [pc EXCEPT ![c] = "save_parent"]
    /\ UNCHANGED <<msg, out, reqs, okAdds, schema, stream>>

\* entry_repo.save(entry) with id the ID drawn by new_random_id
AddSaveEntry(c, id) ==
    /\ pc[c] = "save_entry"
    /\ entries' = SaveMap(entries, loc[c].entry[1], id)
    /\ loc' = [loc EXCEPT ![c].entry = Some(SaveReturn(entries, loc[c].entry[1], id))]
    /\ effects' = [effects EXCEPT ![c] = @ \cup {"save_entry"}]
    /\ pc' = [pc EXCEPT ![c] = "save_parent"]
    /\ UNCHANGED <<msg, out, reqs, okAdds, schema, stream>>

\* parent.add_child(entry.get_id().unwrap()) and entry_repo.save(parent)
AddSaveParent(c) ==
    /\ pc[c] = "save_parent"
    /\ IF loc[c].entry[1]._id = Nothing
       THEN /\ Panic(c, loc[c])
            /\ UNCHANGED <<entries, effects>>
       ELSE LET parent == [loc[c].parent[1] EXCEPT
                             !.children = @ \cup {loc[c].entry[1]._id[1]}]
            IN /\ entries' = SaveMap(entries, parent, 0)
               /\ effects' = [effects EXCEPT ![c] = @ \cup {"save_parent"}]
               /\ Return(c, [loc[c] EXCEPT !.parent = Some(parent)], "Ok")
    /\ UNCHANGED <<msg, out, reqs, okAdds, schema, stream>>

----------------------------------------------------------------------------
(* controller.rs and the tail of the loop of run: the response and send_msg *)

\* the matched DN and the diagnostic of the LdapResult for an unknown request
\* the wrong way round
ResponseForDiagnosticAsDn(m, res) ==
    CASE res = "Ok" -> Some(Response(Some(m.message_id), "AddResponse", "success"))
      [] res = "BindResponse" ->
            Some(Response(Some(m.message_id), "BindResponse", "success"))
      [] res = "NotImplemented" ->
            Some(BareLdapResult("unwillingToPerform", "Request type not implemented", ""))
      [] OTHER ->
            IF LdapResultTryFrom(res) = Nothing THEN Nothing
            ELSE Some(Response(Some(m.message_id), "AddResponse",
                               LdapResultTryFrom(res)[1]))

\* what run writes for the handler's result res to the message m; Nothing when
\* the conversion of the error fails and run returns with it
ResponseFor(m, res) ==
    CASE res = "Ok" -> Some(Response(Some(m.message_id), "AddResponse", "success"))
      [] res = "BindResponse" ->
            Some(Response(Some(m.message_id), "BindResponse", "success"))
      [] res = "NotImplemented" ->
            Some(BareLdapResult("unwillingToPerform", "", "Request type not implemented"))
      [] OTHER ->
            IF LdapResultTryFrom(res) = Nothing THEN Nothing
            ELSE Some(Response(Some(m.message_id), "AddResponse",
                               LdapResultTryFrom(res)[1]))

Count(bag, x) == IF x \in DOMAIN bag THEN bag[x] ELSE 0

Send(c) ==
    /\ pc[c] = "send"
    /\ LET r == ResponseFor(msg[c][1], loc[c].result) IN
        IF r = Nothing
        THEN /\ pc' = [pc EXCEPT ![c] = "failed"]
             /\ UNCHANGED out
        ELSE /\ pc' = [pc EXCEPT ![c] = "read"]
             /\ out' = [out EXCEPT ![c] = Append(@, r[1])]
    /\ okAdds' = IF loc[c].result = "Ok"
                 THEN [d \in DOMAIN okAdds \cup {loc[c].dn} |->
                         Count(okAdds, d) + (IF d = loc[c].dn THEN 1 ELSE 0)]
                 ELSE okAdds
    /\ UNCHANGED <<entries, msg, loc, reqs, effects, schema, stream>>

----------------------------------------------------------------------------
(* Specifications *)

\* the steps of connection c after the read, other than the save of a new entry
Step(c) ==
    \/ AddFindDn(c)
    \/ AddFindParent(c)
    \/ AddSaveParent(c)
    \/ Send(c)

\* rand::random() draws any ID
new_random_id == IdSpace

\* the Adds the connections of Spec and SpecAnyId send
TreeMessages ==
    {Message(1, "AddRequest", Some(AddRequest(Utf8(dn), <<Person>>))) :
        dn \in {DnA, DnB, DnUnderA, DnSeedChild}}

\* Connections adding entries side by side, in the runs in which no draw of
\* new_random_id is the ID of a stored entry
Next ==
    \E c \in Conns :
        \/ \E m \in TreeMessages : ReadMsg(c, m)
        \/ Step(c)
        \/ \E id \in new_random_id \ DOMAIN entries : AddSaveEntry(c, id)

Spec == Init /\ [][Next]_vars

\* Connections adding entries side by side, whatever new_random_id draws
NextAnyId ==
    \E c \in Conns :
        \/ \E m \in TreeMessages : ReadMsg(c, m)
        \/ Step(c)
        \/ \E id \in new_random_id : AddSaveEntry(c, id)

SpecAnyId == Init /\ [][NextAnyId]_vars

\* One connection and every kind of message
NextSession ==
    \/ \E m \in Messages : ReadMsg(1, m)
    \/ ReadMsgDecodeError(1)
    \/ Step(1)
    \/ \E id \in new_random_id : AddSaveEntry(1, id)

SpecSession == Init /\ [][NextSession]_vars

----------------------------------------------------------------------------
(* validate_entry on its own: schemas and entries given to it *)

\* the schema of tests::test_validate_schema
TestSchema ==
    [attributes |->
        { [numericoid |-> "cn-oid", names |-> {"cn"}, single_value |-> FALSE],
          [numericoid |-> "sn-oid", names |-> {"sn"}, single_value |-> FALSE],
          [numericoid |-> "upw-oid", names |-> {"userPassword"}, single_value |-> FALSE] },
     object_classes |->
        { [numericoid |-> "person-oid", names |-> {"person"}, kind |-> "Structural",
           must_attrs |-> {"cn-oid", "sn-oid"}, may_attrs |-> {"upw-oid"}] }]

\* a schema with two structural classes, an auxiliary class and a
\* single-valued attribute
KindsSchema ==
    [attributes |->
        { [numericoid |-> "cn-oid", names |-> {"cn"}, single_value |-> FALSE],
          [numericoid |-> "sn-oid", names |-> {"sn"}, single_value |-> FALSE],
          [numericoid |-> "uid-oid", names |-> {"uid"}, single_value |-> TRUE] },
     object_classes |->
        { [numericoid |-> "person-oid", names |-> {"person"}, kind |-> "Structural",
           must_attrs |-> {"cn-oid"}, may_attrs |-> {"sn-oid"}],
          [numericoid |-> "org-oid", names |-> {"organization"}, kind |-> "Structural",
           must_attrs |-> {}, may_attrs |-> {"sn-oid"}],
          [numericoid |-> "account-oid", names |-> {"account"}, kind |-> "Auxiliary",
           must_attrs |-> {"uid-oid"}, may_attrs |-> {}] }]

Schemas == {BootstrapSchema, TestSchema, KindsSchema}

ObjectClassOidInputs == {"person-oid", "org-oid", "account-oid", "unknown-oid"}

AttributeOidInputs == {"cn-oid", "sn-oid", "upw-oid", "uid-oid"}

ValueSetInputs == SUBSET {Str("a"), Str("b")}

\* the entries EntryBuilder can build over these OIDs and values
EntryInputs ==
    [_id : {Nothing}, parent : {0}, children : {{}},
     object_classes : SUBSET ObjectClassOidInputs,
     attributes : UNION {[D -> ValueSetInputs] : D \in SUBSET AttributeOidInputs}]

InitValidate ==
    /\ schema \in Schemas
    /\ stream = [c \in Conns |-> NoStream]
    /\ entries = EmptyEntries
    /\ pc = [c \in Conns |-> "validate"]
    /\ msg = [c \in Conns |-> Nothing]
    /\ loc = [c \in Conns |-> NoLoc]
    /\ out = [c \in Conns |-> <<>>]
    /\ reqs = 0
    /\ effects = [c \in Conns |-> {}]
    /\ okAdds = <<>>

\* schema_service.validate_entry(&entry)
ValidateEntry(c, entry) ==
    /\ pc[c] = "validate"
    /\ \E v \in validate_entry(entry) :
        loc' = [loc EXCEPT ![c] = [NoLoc EXCEPT !.entry = Some(entry), !.result = v]]
    /\ pc' = [pc EXCEPT ![c] = "validated"]
    /\ UNCHANGED <<entries, msg, out, reqs, effects, okAdds, schema, stream>>

NextValidate == \E entry \in EntryInputs : ValidateEntry(1, entry)

SpecValidate == InitValidate /\ [][NextValidate]_vars

----------------------------------------------------------------------------
(* infrastructure.rs: the BER framer, byte by byte.  A usize is the sequence *)
(* of its bytes, most significant first.                                    *)

UsizeBytes == 8

\* b as usize
UsizeFromByte(b) == [i \in 1..UsizeBytes |-> IF i = UsizeBytes THEN b ELSE 0]

\* (acc << 8) | b as usize: the top byte is shifted out
ShiftOr(acc, b) == Tail(acc) \o <<b>>

RECURSIVE FoldLen(_, _)
\* long_len_buf.iter().fold(acc, |acc, b| (acc << 8) | b)
FoldLen(acc, bytes) ==
    IF Len(bytes) = 0 THEN acc
    ELSE FoldLen(ShiftOr(acc, bytes[1]), Tail(bytes))

\* the usize is below 2^24, and its value then
Fits(u) == \A i \in 1..(UsizeBytes - 3) : u[i] = 0

UsizeValue(u) ==
    u[UsizeBytes - 2] * 65536 + u[UsizeBytes - 1] * 256 + u[UsizeBytes]

\* Read::read in the place of read_exact: the bytes there are, and the zeros
\* of the buffer behind them
ReadExactShort(rest, n) ==
    IF Len(rest) < n
    THEN Some([buf |-> rest \o [i \in 1..(n - Len(rest)) |-> 0], rest |-> <<>>])
    ELSE Some([buf |-> SubSeq(rest, 1, n), rest |-> SubSeq(rest, n + 1, Len(rest))])

\* Read::read_exact of n bytes from the unread bytes: Nothing for the Err of a
\* stream that ends before
read_exact(rest, n) ==
    IF Len(rest) < n THEN Nothing
    ELSE Some([buf |-> SubSeq(rest, 1, n), rest |-> SubSeq(rest, n + 1, Len(rest))])

\* the length bytes read without the mask of the top bit
ReadBerLenNoMask(rest) ==
    LET hdr == read_exact(rest, 2) IN
    IF hdr = Nothing THEN Nothing
    ELSE LET b == hdr[1].buf[2] IN
         IF b < 128
         THEN Some([len |-> UsizeFromByte(b), buf |-> hdr[1].buf, rest |-> hdr[1].rest])
         ELSE LET long == read_exact(hdr[1].rest, b) IN
              IF long = Nothing THEN Nothing
              ELSE Some([len |-> FoldLen(UsizeFromByte(0), long[1].buf),
                         buf |-> hdr[1].buf \o long[1].buf, rest |-> long[1].rest])

\* read_ber_len: Nothing for the Err, else the length, the header bytes and
\* the bytes left
read_ber_len(rest) ==
    LET hdr == read_exact(rest, 2) IN
    IF hdr = Nothing THEN Nothing
    ELSE LET b == hdr[1].buf[2] IN
         IF b < 128
         THEN Some([len |-> UsizeFromByte(b), buf |-> hdr[1].buf, rest |-> hdr[1].rest])
         ELSE LET long == read_exact(hdr[1].rest, b % 128) IN
              IF long = Nothing THEN Nothing
              ELSE Some([len |-> FoldLen(UsizeFromByte(0), long[1].buf),
                         buf |-> hdr[1].buf \o long[1].buf, rest |-> long[1].rest])

\* read_msg up to the decoder: the buffer of the PDU and the bytes left.  A
\* length of 2^24 or more is longer than every stream followed here, so
\* read_exact fails; vec![0; len] panics when len exceeds isize::MAX.
read_msg(rest) ==
    LET h == read_ber_len(rest) IN
    IF h = Nothing THEN [tag |-> "Err"]
    ELSE IF h[1].len[1] >= 128 THEN [tag |-> "Panic"]
    ELSE IF ~Fits(h[1].len) THEN [tag |-> "Err"]
    ELSE LET p == read_exact(h[1].rest, UsizeValue(h[1].len)) IN
         IF p = Nothing THEN [tag |-> "Err"]
         ELSE [tag |-> "Ok", buf |-> h[1].buf \o p[1].buf, rest |-> p[1].rest]

\* one read_msg of the loop of run on the bytes of the stream
ReadFrame(c) ==
    /\ pc[c] = "read"
    /\ stream[c].rest # <<>>
    /\ LET r == read_msg(stream[c].rest) IN
        CASE r.tag = "Ok" ->
                /\ stream' = [stream EXCEPT ![c].rest = r.rest,
                                            ![c].bufs = Append(@, r.buf)]
                /\ UNCHANGED pc
          [] r.tag = "Err" ->
                /\ pc' = [pc EXCEPT ![c] = "failed"]
                /\ UNCHANGED stream
          [] r.tag = "Panic" ->
                /\ pc' = [pc EXCEPT ![c] = "panicked"]
                /\ UNCHANGED stream
    /\ UNCHANGED <<entries, msg, loc, out, reqs, effects, okAdds, schema>>

\* The PDUs a client writes

MaxPayload == 2

BigPayload == 65536

Payload(L) == [i \in 1..L |-> 7]

RECURSIVE BigEndian(_, _)
\* the K bytes of n, most significant first
BigEndian(n, K) ==
    IF K = 0 THEN <<>> ELSE BigEndian(n \div 256, K - 1) \o <<n % 256>>

\* tag 0x30, short-form length
ShortPdu(L) == <<48, L>> \o Payload(L)

\* tag 0x30, long-form length of K bytes
LongPdu(K, L) == <<48, 128 + K>> \o BigEndian(L, K) \o Payload(L)

\* a length of 2^32 in five bytes, and fewer bytes than that behind it
OversizedPdu == <<48, 133, 1, 0, 0, 0, 0>> \o Payload(MaxPayload)

\* a length of 2^63 in eight bytes
HugePdu == <<48, 136, 128, 0, 0, 0, 0, 0, 0, 0>> \o Payload(MaxPayload)

PduInputs ==
    {ShortPdu(L) : L \in 0..MaxPayload}
    \cup {LongPdu(K, L) : K \in {1, 2, 4}, L \in 0..MaxPayload}
    \cup {LongPdu(4, BigPayload), OversizedPdu, HugePdu}

RECURSIVE Concat(_, _)
\* the PDUs from the i-th on, back to back
Concat(pdus, i) ==
    IF i > Len(pdus) THEN <<>> ELSE pdus[i] \o Concat(pdus, i + 1)

InitFrame ==
    /\ entries = EmptyEntries
    /\ pc = [c \in Conns |-> "read"]
    /\ msg = [c \in Conns |-> Nothing]
    /\ loc = [c \in Conns |-> NoLoc]
    /\ out = [c \in Conns |-> <<>>]
    /\ reqs = 0
    /\ effects = [c \in Conns |-> {}]
    /\ okAdds = <<>>
    /\ schema = BootstrapSchema
    /\ \E p1 \in PduInputs, p2 \in PduInputs :
        stream = [c \in Conns |->
                    IF c = 1 THEN [pdus |-> <<p1, p2>>, rest |-> p1 \o p2, bufs |-> <<>>]
                    ELSE NoStream]

NextFrame == ReadFrame(1)

SpecFrame == InitFrame /\ [][NextFrame]_vars

\* A client that writes one PDU and closes the stream within the next one

SmallPduInputs ==
    {ShortPdu(L) : L \in 0..MaxPayload}
    \cup {LongPdu(K, L) : K \in {1, 2, 4}, L \in 0..MaxPayload}

InitTruncated ==
    /\ entries = EmptyEntries
    /\ pc = [c \in Conns |-> "read"]
    /\ msg = [c \in Conns |-> Nothing]
    /\ loc = [c \in Conns |-> NoLoc]
    /\ out = [c \in Conns |-> <<>>]
    /\ reqs = 0
    /\ effects = [c \in Conns |-> {}]
    /\ okAdds = <<>>
    /\ schema = BootstrapSchema
    /\ \E p1 \in SmallPduInputs, p2 \in SmallPduInputs :
        \E n \in 1..(Len(p2) - 1) :
            stream = [c \in Conns |->
                        IF c = 1 THEN [pdus |-> <<p1, p2>>,
                                       rest |-> p1 \o SubSeq(p2, 1, n),
                                       bufs |-> <<>>]
                        ELSE NoStream]

SpecTruncated == InitTruncated /\ [][NextFrame]_vars

\* read_ber_len on its own, on the headers given to it

\* the numbers of length bytes of the long form
LenOfLenInputs == {1, 2, 3, 8, 9, 16}

\* K length bytes: the first, the last, zeros between them
LenBytes(K, hi, lo) == [i \in 1..K |-> IF i = K THEN lo ELSE IF i = 1 THEN hi ELSE 0]

HeaderInputs ==
    {<<48, b>> : b \in 0..127}
    \cup {<<48, 128 + K>> \o LenBytes(K, hi, lo) :
            K \in LenOfLenInputs, hi \in {0, 1, 255}, lo \in {0, 1, 255}}

InitLen ==
    /\ entries = EmptyEntries
    /\ pc = [c \in Conns |-> "read"]
    /\ msg = [c \in Conns |-> Nothing]
    /\ loc = [c \in Conns |-> NoLoc]
    /\ out = [c \in Conns |-> <<>>]
    /\ reqs = 0
    /\ effects = [c \in Conns |-> {}]
    /\ okAdds = <<>>
    /\ schema = BootstrapSchema
    /\ \E h \in HeaderInputs :
        stream = [c \in Conns |->
                    IF c = 1 THEN [pdus |-> <<h>>, rest |-> h, bufs |-> <<>>]
                    ELSE NoStream]

\* self.read_ber_len()
ReadBerLen(c) ==
    /\ pc[c] = "read"
    /\ stream[c].rest # <<>>
    /\ loc' = [loc EXCEPT ![c] = [NoLoc EXCEPT !.ret = Some(read_ber_len(stream[c].rest))]]
    /\ pc' = [pc EXCEPT ![c] = "len_read"]
    /\ UNCHANGED <<entries, msg, out, reqs, effects, okAdds, schema, stream>>

NextLen == ReadBerLen(1)

SpecLen == InitLen /\ [][NextLen]_vars

----------------------------------------------------------------------------
(* service/entry.rs: find_by_dn on its own, on the trees and DNs given to it *)

MaxDepth == 3

NodeValueSets == {{Str("a")}, {Str("b")}, {Str("a"), Str("b")}}

\* every entry but the root hangs under an entry with a smaller key
ParentInputs == {f \in [1..MaxId -> IdSpace] : \A k \in 1..MaxId : f[k] < k}

\* the repository of the tree with these parents: the root holds dc-oid=dev,
\* every other entry the values val[k] of cn-oid
Tree(par, val) ==
    [k \in IdSpace |->
        [_id |-> Some(k),
         parent |-> IF k = root_identifier THEN root_identifier ELSE par[k],
         children |-> {j \in 1..MaxId : par[j] = k},
         object_classes |-> IF k = root_identifier THEN {} ELSE {"person-oid"},
         attributes |-> IF k = root_identifier THEN ("dc-oid" :> {Str("dev")})
                        ELSE ("cn-oid" :> val[k])]]

TreeInputs ==
    {Tree(par, val) : par \in ParentInputs, val \in [1..MaxId -> NodeValueSets]}
    \cup {EmptyEntries}

RdnInputs == {<<<<"cn-oid", Str("a")>>>>, <<<<"cn-oid", Str("b")>>>>}

RootRdnInputs == {<<<<"dc-oid", Str("dev")>>>>, <<<<"dc-oid", Str("x")>>>>}

\* the normalised DNs of 1 to MaxDepth RDNs, most specific first
DnInputs ==
    UNION {{front \o <<last>> : front \in [1..n -> RdnInputs], last \in RootRdnInputs} :
            n \in 0..(MaxDepth - 1)}

InitFind ==
    /\ entries \in TreeInputs
    /\ pc = [c \in Conns |-> "find"]
    /\ msg = [c \in Conns |-> Nothing]
    /\ loc = [c \in Conns |-> NoLoc]
    /\ out = [c \in Conns |-> <<>>]
    /\ reqs = 0
    /\ effects = [c \in Conns |-> {}]
    /\ okAdds = <<>>
    /\ schema = BootstrapSchema
    /\ stream = [c \in Conns |-> NoStream]

\* entry_service.find_by_dn(&dn)
FindByDn(c, dn) ==
    /\ pc[c] = "find"
    /\ entries' = WithRoot(entries)
    /\ \E r \in find_by_dn(entries, dn) :
        loc' = [loc EXCEPT ![c] = [NoLoc EXCEPT !.dn = dn, !.ret = Some(r)]]
    /\ pc' = [pc EXCEPT ![c] = "found"]
    /\ UNCHANGED <<msg, out, reqs, effects, okAdds, schema, stream>>

NextFind == \E dn \in DnInputs : FindByDn(1, dn)

SpecFind == InitFind /\ [][NextFind]_vars

----------------------------------------------------------------------------
(* service/entry.rs: find_dn_recursive call by call, on repositories whose   *)
(* children links may form cycles.  loc[c].frames is the stack of the calls  *)
(* that have not returned, loc[c].ret the value a call has just returned.    *)

GraphIds == {0, 1, 2}

\* the repositories over these keys with any children sets: every child is a
\* stored entry, an entry may be its own descendant
GraphInputs ==
    {[k \in GraphIds |->
        [_id |-> Some(k), parent |-> root_identifier, children |-> ch[k],
         object_classes |-> IF k = root_identifier THEN {} ELSE {"person-oid"},
         attributes |-> IF k = root_identifier THEN ("dc-oid" :> {Str("dev")})
                        ELSE IF k = 1 THEN ("cn-oid" :> {Str("a")})
                        ELSE ("cn-oid" :> {Str("b")})]] :
     ch \in [GraphIds -> SUBSET GraphIds]}

\* the DNs under dc-oid=dev
WalkDnInputs == {dn \in DnInputs : dn[Len(dn)] = <<<<"dc-oid", Str("dev")>>>>}

\* a call of find_dn_recursive(curr_entry, &rdns[..n]) that has not returned
Frame(curr_entry, n) ==
    [curr_entry |-> curr_entry, n |-> n, entered |-> FALSE, todo |-> {}, res |-> Nothing]

InitWalk ==
    /\ entries \in GraphInputs
    /\ pc = [c \in Conns |-> "find"]
    /\ msg = [c \in Conns |-> Nothing]
    /\ loc = [c \in Conns |-> NoLoc]
    /\ out = [c \in Conns |-> <<>>]
    /\ reqs = 0
    /\ effects = [c \in Conns |-> {}]
    /\ okAdds = <<>>
    /\ schema = BootstrapSchema
    /\ stream = [c \in Conns |-> NoStream]

\* find_by_dn: the first call, on the root entry and the whole DN
WalkStart(c, dn) ==
    /\ pc[c] = "find"
    /\ entries' = WithRoot(entries)
    /\ loc' = [loc EXCEPT ![c] =
                [NoLoc EXCEPT !.dn = dn,
                              !.frames = <<Frame(get_root_entry(entries), Len(dn))>>]]
    /\ pc' = [pc EXCEPT ![c] = "walk"]
    /\ UNCHANGED <<msg, out, reqs, effects, okAdds, schema, stream>>

\* the call on top returns r
WalkPop(c, r) ==
    loc' = [loc EXCEPT ![c].frames = SubSeq(@, 1, Len(@) - 1), ![c].ret = Some(r)]

\* the head of find_dn_recursive: the slice of one RDN and the test of the
\* current entry against rdns.last()
WalkBody(c) ==
    /\ pc[c] = "walk"
    /\ loc[c].ret = Nothing
    /\ loc[c].frames # <<>>
    /\ LET f == loc[c].frames[Len(loc[c].frames)] IN
        /\ ~f.entered
        /\ IF f.n = 1
           THEN IF matches_rdn(f.curr_entry, loc[c].dn[1])
                THEN WalkPop(c, FindRes("Found", Some(f.curr_entry), <<>>))
                ELSE WalkPop(c, FindRes("NotFound", Nothing, <<>>))
           ELSE IF ~matches_rdn(f.curr_entry, loc[c].dn[f.n])
                THEN WalkPop(c, FindRes("NotFound", Nothing, <<>>))
                ELSE loc' = [loc EXCEPT ![c].frames[Len(loc[c].frames)] =
                                [f EXCEPT !.entered = TRUE,
                                          !.todo = f.curr_entry.children]]
    /\ UNCHANGED <<entries, pc, msg, out, reqs, effects, okAdds, schema, stream>>

\* one turn of the loop with the same slice passed on
WalkLoopSameSlice(c, child_id) ==
    /\ pc[c] = "walk"
    /\ loc[c].ret = Nothing
    /\ loc[c].frames # <<>>
    /\ LET f == loc[c].frames[Len(loc[c].frames)] IN
        /\ f.entered
        /\ child_id \in f.todo
        /\ IF get_by_id(entries, child_id) = Nothing
           THEN /\ loc' = [loc EXCEPT ![c].frames = <<>>,
                                      ![c].ret = Some(FindRes("InvalidEntry", Nothing, <<>>))]
                /\ pc' = [pc EXCEPT ![c] = "walked"]
           ELSE /\ loc' = [loc EXCEPT ![c].frames =
                            Append([@ EXCEPT ![Len(@)].todo = f.todo \ {child_id}],
                                   Frame(get_by_id(entries, child_id)[1], f.n))]
                /\ UNCHANGED pc
    /\ UNCHANGED <<entries, msg, out, reqs, effects, okAdds, schema, stream>>

\* one turn of the loop over the children: get_by_id and the recursive call
\* on next_slice
WalkLoop(c, child_id) ==
    /\ pc[c] = "walk"
    /\ loc[c].ret = Nothing
    /\ loc[c].frames # <<>>
    /\ LET f == loc[c].frames[Len(loc[c].frames)] IN
        /\ f.entered
        /\ child_id \in f.todo
        /\ IF get_by_id(entries, child_id) = Nothing
           THEN /\ loc' = [loc EXCEPT ![c].frames = <<>>,
                                      ![c].ret = Some(FindRes("InvalidEntry", Nothing, <<>>))]
                /\ pc' = [pc EXCEPT ![c] = "walked"]
           ELSE /\ loc' = [loc EXCEPT ![c].frames =
                            Append([@ EXCEPT ![Len(@)].todo = f.todo \ {child_id}],
                                   Frame(get_by_id(entries, child_id)[1], f.n - 1))]
                /\ UNCHANGED pc
    /\ UNCHANGED <<entries, msg, out, reqs, effects, okAdds, schema, stream>>

\* the end of the loop: NotFound with rdns.last() appended to the DN of res
WalkLoopEnd(c) ==
    /\ pc[c] = "walk"
    /\ loc[c].ret = Nothing
    /\ loc[c].frames # <<>>
    /\ LET f == loc[c].frames[Len(loc[c].frames)] IN
        /\ f.entered
        /\ f.todo = {}
        /\ WalkPop(c, FindRes("NotFound", Nothing,
                              Append(IF f.res = Nothing THEN <<>> ELSE f.res[1].dn,
                                     loc[c].dn[f.n])))
    /\ UNCHANGED <<entries, pc, msg, out, reqs, effects, okAdds, schema, stream>>

\* the caller takes the value returned: Found ends its loop, NotFound goes
\* into res; with no caller left find_by_dn returns it
WalkReturn(c) ==
    /\ pc[c] = "walk"
    /\ loc[c].ret # Nothing
    /\ IF loc[c].frames = <<>>
       THEN /\ pc' = [pc EXCEPT ![c] = "walked"]
            /\ UNCHANGED loc
       ELSE /\ IF IsFound(loc[c].ret[1])
               THEN WalkPop(c, loc[c].ret[1])
               ELSE loc' = [loc EXCEPT ![c].frames[Len(loc[c].frames)].res = loc[c].ret,
                                       ![c].ret = Nothing]
            /\ UNCHANGED pc
    /\ UNCHANGED <<entries, msg, out, reqs, effects, okAdds, schema, stream>>

NextWalk ==
    \/ \E dn \in WalkDnInputs : WalkStart(1, dn)
    \/ WalkBody(1)
    \/ \E child_id \in GraphIds : WalkLoop(1, child_id)
    \/ WalkLoopEnd(1)
    \/ WalkReturn(1)

\* the thread that runs find_by_dn is scheduled until it returns
SpecWalk == InitWalk /\ [][NextWalk]_vars /\ WF_vars(NextWalk)

----------------------------------------------------------------------------
(* service/schema.rs: the normalisers on their own, on values that are      *)
(* already normalised                                                       *)

\* attribute maps whose keys are OIDs
OidMapInputs ==
    UNION {[D -> ValueSetInputs] : D \in SUBSET {Str("cn-oid"), Str("sn-oid")}}

InitNormalise ==
    /\ entries = EmptyEntries
    /\ pc = [c \in Conns |-> "call"]
    /\ msg = [c \in Conns |-> Nothing]
    /\ loc = [c \in Conns |-> NoLoc]
    /\ out = [c \in Conns |-> <<>>]
    /\ reqs = 0
    /\ effects = [c \in Conns |-> {}]
    /\ okAdds = <<>>
    /\ schema \in Schemas
    /\ stream = [c \in Conns |-> NoStream]

\* schema_service.create_normalised_dn(&dn.to_string())
ParseRendered(c, dn) ==
    /\ pc[c] = "call"
    /\ loc' = [loc EXCEPT ![c] =
                [NoLoc EXCEPT !.dn = dn,
                              !.ret = Some(create_normalised_dn(DnToString(dn)))]]
    /\ pc' = [pc EXCEPT ![c] = "parsed"]
    /\ UNCHANGED <<entries, msg, out, reqs, effects, okAdds, schema, stream>>

\* schema_service.get_normalised_attributes(&attributes)
NormaliseAttributes(c, attributes) ==
    /\ pc[c] = "call"
    /\ \E r \in get_normalised_attributes(attributes) :
        loc' = [loc EXCEPT ![c] = [NoLoc EXCEPT !.attributes = attributes,
                                               !.ret = Some(r)]]
    /\ pc' = [pc EXCEPT ![c] = "normalised"]
    /\ UNCHANGED <<entries, msg, out, reqs, effects, okAdds, schema, stream>>

NextNormalise ==
    \/ \E dn \in DnInputs : ParseRendered(1, dn)
    \/ \E attributes \in OidMapInputs : NormaliseAttributes(1, attributes)

SpecNormalise == InitNormalise /\ [][NextNormalise]_vars

----------------------------------------------------------------------------
(* Properties *)

\* positions in which the connection is not handling a message
Idle == {"read", "done", "failed", "panicked"}

\* the message c read last has been dealt with
Handled(c) == msg[c] # Nothing /\ pc[c] \in Idle

HandledAdd(c) == Handled(c) /\ msg[c][1].op = "AddRequest"

AddResponseTo(c, code) ==
    <<Response(Some(msg[c][1].message_id), "AddResponse", code)>>

RECURSIVE HasDn(_, _)
\* the entry under key k has the DN dn, walking its parent links up to the root
HasDn(k, dn) ==
    /\ k \in DOMAIN entries
    /\ matches_rdn(entries[k], dn[1])
    /\ IF Len(dn) = 1 THEN k = root_identifier
       ELSE k # root_identifier /\ HasDn(entries[k].parent, Tail(dn))

\* the entry add_entry would build for the locals l under the root validates
SchemaSatisfied(l) ==
    /\ get_normalised_obj_classes(l.attributes) # Nothing
    /\ \A attrs \in get_normalised_attributes(l.attributes) :
        /\ attrs # Nothing
        /\ validate_entry(BuildEntry(l.dn, get_normalised_obj_classes(l.attributes)[1],
                                     attrs[1], [_id |-> Some(root_identifier)]))
             = {"Ok"}

\* C1: while an Add stands between persisting its entry and linking it into
\* the parent, the repository never holds that entry stored but missing from
\* its parent's children set.
C1_EntryNeverStoredUnlinked ==
    \A c \in Conns :
        pc[c] = "save_parent" /\ loc[c].entry[1]._id # Nothing =>
            LET e == loc[c].entry[1] IN
            ~ /\ get_by_id(entries, e._id[1]) # Nothing
              /\ \/ e.parent \notin DOMAIN entries
                 \/ e._id[1] \notin entries[e.parent].children

\* C2: of the Adds of one normalised DN at most one is answered Success, and
\* the repository never holds two entries with that DN.
C2_SameDnAddedOnce ==
    \A d \in DOMAIN okAdds :
        /\ okAdds[d] <= 1
        /\ Cardinality({k \in DOMAIN entries : HasDn(k, d)}) <= 1

\* C3: when no connection is handling a message, every entry other than the
\* root has a stored parent whose children set contains the entry's ID.
C3_QuiescentEntriesLinked ==
    (\A c \in Conns : pc[c] \in Idle) =>
        \A k \in DOMAIN entries \ {root_identifier} :
            /\ entries[k].parent \in DOMAIN entries
            /\ k \in entries[entries[k].parent].children

\* C4: once an Add of a DN was answered Success, find_by_dn of that DN
\* returns Found in every later state.
C4_AddedStaysFound ==
    \A d \in DOMAIN okAdds : \A r \in find_by_dn(entries, d) : r.tag = "Found"

\* C5 as stated: an Add whose parent DN is not found is answered
\* AddResponse(noSuchObject) and has written nothing to the repository.
C5_NoSuchObjectWritesNothing ==
    \A c \in Conns :
        HandledAdd(c) /\ loc[c].parent_res = "NotFound" =>
            /\ out[c] = AddResponseTo(c, "noSuchObject")
            /\ effects[c] = {}

\* C5 as amended: an Add whose parent DN is not found is answered
\* AddResponse(noSuchObject), and the only write it may have made is the
\* default root entry that get_root_entry leaves in a repository without root.
C5_NoSuchObjectOnlyCreatesRoot ==
    \A c \in Conns :
        HandledAdd(c) /\ loc[c].parent_res = "NotFound" =>
            /\ out[c] = AddResponseTo(c, "noSuchObject")
            /\ effects[c] \subseteq {"create_root"}

\* an Add under a parent that does not resolve, in a repository with entries
C5_Witness ==
    \E c \in Conns :
        /\ HandledAdd(c)
        /\ loc[c].parent_res = "NotFound"
        /\ out[c] # <<>>
        /\ Cardinality(DOMAIN entries) >= 2

\* C6: an Add whose DN is found is answered AddResponse(entryAlreadyExists)
\* and has written nothing to the repository.
C6_ExistingDnRejected ==
    \A c \in Conns :
        HandledAdd(c) /\ loc[c].dn_res = "Found" =>
            /\ out[c] = AddResponseTo(c, "entryAlreadyExists")
            /\ effects[c] = {}

\* an Add of a DN that resolves has been answered
C6_Witness ==
    \E c \in Conns : HandledAdd(c) /\ loc[c].dn_res = "Found" /\ out[c] # <<>>

\* C7: an Add of a DN of one RDN whose entry satisfies the schema is answered
\* Success and its entry is stored as a child of the root.
C7_SingleRdnAddSucceeds ==
    \A c \in Conns :
        HandledAdd(c) /\ Len(loc[c].dn) = 1 /\ SchemaSatisfied(loc[c]) =>
            /\ out[c] = AddResponseTo(c, "success")
            /\ \E k \in WithRoot(entries)[root_identifier].children :
                /\ k \in DOMAIN entries
                /\ matches_rdn(entries[k], loc[c].dn[1])

\* C8: every error add_entry or the command construction returns is answered
\* with an AddResponse on the connection, which then reads on.
C8_AddFailureAnswered ==
    \A c \in Conns :
        HandledAdd(c) /\ loc[c].result \notin {"", "Ok"} =>
            /\ pc[c] = "read"
            /\ Len(out[c]) = 1
            /\ out[c][1].op = "AddResponse"

\* C9: every message written carries the message_id of the message it answers.
C9_ResponseCarriesMessageId ==
    \A c \in Conns :
        \A i \in 1..Len(out[c]) : out[c][i].message_id = Some(msg[c][1].message_id)

\* C10: a message other than Unbind has exactly one response once it has been
\* dealt with, and no message ever has more than one.
C10_OneResponsePerRequest ==
    \A c \in Conns :
        /\ Len(out[c]) <= 1
        /\ Handled(c) /\ msg[c][1].op # "UnbindRequest" => Len(out[c]) = 1

\* C11: after the decoder rejected a PDU the connection is back at reading the
\* next PDU, and what it wrote for the failure is a protocol error.
C11_DecodeErrorContinues ==
    \A c \in Conns :
        loc[c].result = "DecodeError" =>
            /\ pc[c] = "read"
            /\ \A i \in 1..Len(out[c]) : out[c][i].code = "protocolError"

\* some field of the AddRequest is not UTF-8
HasNonUtf8(req) ==
    \/ ~req.entry.utf8
    \/ \E i \in 1..Len(req.attributes) :
        \/ ~req.attributes[i].type.utf8
        \/ \E j \in 1..Len(req.attributes[i].vals) : ~req.attributes[i].vals[j].utf8

\* C12: an Add with a DN, an attribute type or an attribute value that is not
\* UTF-8 is answered AddResponse(protocolError), has written nothing to the
\* repository, and the connection reads the next request.
C12_NonUtf8AddRejected ==
    \A c \in Conns :
        HandledAdd(c) /\ HasNonUtf8(msg[c][1].req[1]) =>
            /\ out[c] = AddResponseTo(c, "protocolError")
            /\ effects[c] = {}
            /\ pc[c] = "read"

\* an Add with a UTF-8 DN and an attribute value that is not UTF-8 has been answered
C12_Witness ==
    \E c \in Conns :
        /\ HandledAdd(c)
        /\ msg[c][1].req[1].entry.utf8
        /\ \E i \in 1..Len(msg[c][1].req[1].attributes) :
            \E j \in 1..Len(msg[c][1].req[1].attributes[i].vals) :
                ~msg[c][1].req[1].attributes[i].vals[j].utf8
        /\ out[c] # <<>>

\* C13: a SearchRequest is answered SearchResultDone(success) and the
\* connection reads the next request.
C13_SearchAnswered ==
    \A c \in Conns :
        Handled(c) /\ msg[c][1].op = "SearchRequest" =>
            /\ pc[c] = "read"
            /\ out[c] = <<Response(Some(msg[c][1].message_id), "SearchResultDone",
                                   "success")>>

\* C14: a request that is no Bind, Add, Search or Unbind is answered with one
\* LdapResult carrying unwillingToPerform and the diagnostic "Request type not
\* implemented", has written nothing to the repository, and the connection
\* reads the next request.
C14_UnknownRequestRefused ==
    \A c \in Conns :
        /\ Handled(c)
        /\ msg[c][1].op \notin {"BindRequest", "AddRequest", "SearchRequest",
                                "UnbindRequest"}
        => /\ pc[c] = "read"
           /\ Len(out[c]) = 1
           /\ out[c][1].op = "LdapResult"
           /\ out[c][1].code = "unwillingToPerform"
           /\ out[c][1].diagnostic_message = "Request type not implemented"
           /\ effects[c] = {}

\* a request of another kind has been answered, in a repository with entries
C14_Witness ==
    \E c \in Conns :
        /\ Handled(c)
        /\ msg[c][1].op = "DelRequest"
        /\ out[c] # <<>>
        /\ Cardinality(DOMAIN entries) >= 2

\* C15: the step that reads an UnbindRequest writes nothing and ends the
\* session, and no later step of the connection reads another message.
C15_UnbindEndsSession ==
    [][\A c \in Conns :
        /\ (msg'[c] # Nothing /\ msg'[c][1].op = "UnbindRequest")
            => (pc'[c] = "done" /\ out'[c] = <<>>)
        /\ (msg[c] # Nothing /\ msg[c][1].op = "UnbindRequest")
            => msg'[c] = msg[c]]_vars

\* the session has ended on an Unbind while more messages could be read
C15_Witness ==
    \E c \in Conns :
        /\ pc[c] = "done"
        /\ msg[c][1].op = "UnbindRequest"
        /\ reqs < MaxReqs

\* no connection is handling a message
Quiescent == \A c \in Conns : pc[c] \in Idle

\* the object classes of entry e that the schema defines, their MUST and MAY
ObjectClassesOf(e) == UNION {get_object_class(oid) : oid \in e.object_classes}

MustOf(e) == UNION {o.must_attrs : o \in ObjectClassesOf(e)}

MayOf(e) == UNION {o.may_attrs : o \in ObjectClassesOf(e)}

\* C16: when no connection is handling a message, every stored entry, the
\* root included, has exactly one object class of kind structural.
C16_OneStructuralClass ==
    Quiescent =>
        \A k \in DOMAIN entries :
            Cardinality({o \in ObjectClassesOf(entries[k]) : o.kind = "Structural"}) = 1

\* C17: when no connection is handling a message, every MUST attribute of the
\* object classes of a stored entry is a key of its attributes with at least
\* one value.
C17_MustAttributesPresent ==
    Quiescent =>
        \A k \in DOMAIN entries :
            \A oid \in MustOf(entries[k]) :
                /\ oid \in DOMAIN entries[k].attributes
                /\ entries[k].attributes[oid] # {}

\* an Add has stored an entry of a class with MUST attributes
C17_Witness ==
    /\ Quiescent
    /\ \E c \in Conns : HandledAdd(c) /\ loc[c].result = "Ok"
    /\ \E k \in DOMAIN entries : MustOf(entries[k]) # {}

\* C18: when no connection is handling a message, every key of the attributes
\* of a stored entry, seeded and root entries included, is a MUST or a MAY
\* attribute of the entry's object classes.
C18_AttributesAllowed ==
    Quiescent =>
        \A k \in DOMAIN entries :
            DOMAIN entries[k].attributes \subseteq MustOf(entries[k]) \cup MayOf(entries[k])

\* the conditions under which an entry satisfies the schema
ValidEntry(e) ==
    /\ \A oid \in e.object_classes : get_object_class(oid) # {}
    /\ Cardinality({o \in ObjectClassesOf(e) : o.kind = "Structural"}) = 1
    /\ \A oid \in MustOf(e) :
        oid \in DOMAIN e.attributes /\ e.attributes[oid] # {}
    /\ (DOMAIN e.attributes \ MustOf(e)) \subseteq MayOf(e)
    /\ \A oid \in DOMAIN e.attributes :
        \A a \in get_attribute(oid) :
            a.single_value => Cardinality(e.attributes[oid]) <= 1

\* C19: validate_entry returns Ok only for an entry whose object classes all
\* resolve, with exactly one structural among them, every MUST attribute
\* present with a value, every other attribute in MAY and no single-valued
\* attribute with more than one value; for every other entry it returns
\* InvalidEntry.
C19_ValidateEntryDecides ==
    \A c \in Conns :
        pc[c] = "validated" =>
            /\ loc[c].result = "Ok" => ValidEntry(loc[c].entry[1])
            /\ ~ValidEntry(loc[c].entry[1]) => loc[c].result = "InvalidEntry"

\* an entry of a structural and an auxiliary class with a single-valued
\* attribute has been validated
C19_Witness ==
    \E c \in Conns :
        /\ pc[c] = "validated"
        /\ loc[c].result = "Ok"
        /\ Cardinality(loc[c].entry[1].object_classes) = 2
        /\ "uid-oid" \in DOMAIN loc[c].entry[1].attributes

\* C20: the ID drawn for a new entry is the ID of no stored entry, the root
\* included: the step that saves a new entry leaves every entry stored before
\* under its ID as it was.
C20_SaveNeverReplaces ==
    [][\A c \in Conns :
        pc[c] = "save_entry" /\ pc'[c] = "save_parent" =>
            \A k \in DOMAIN entries :
                k \in DOMAIN entries' /\ entries'[k] = entries[k]]_vars

\* C21: every buffer read_msg has read is one PDU of the client, in order, and
\* the unread bytes start at the first byte of the PDU after it, for the short
\* form and for long forms up to four length bytes; a read fails only on the
\* PDU that announces more bytes than the stream holds.
C21_ReadConsumesOnePdu ==
    LET n == Len(stream[1].bufs) IN
    /\ \A k \in 1..n : stream[1].bufs[k] = stream[1].pdus[k]
    /\ stream[1].rest = Concat(stream[1].pdus, n + 1)
    /\ pc[1] # "read" =>
        n < Len(stream[1].pdus) /\ stream[1].pdus[n + 1] \in {OversizedPdu, HugePdu}

\* a PDU with four length bytes and a payload of more than 65535 bytes has
\* been read and the unread bytes are the second PDU
C21_Witness ==
    /\ Len(stream[1].bufs) = 1
    /\ stream[1].bufs[1][2] = 132
    /\ Len(stream[1].bufs[1]) > 65535
    /\ stream[1].rest = stream[1].pdus[2]
    /\ stream[1].rest # <<>>

\* the keys of a chain of stored entries for the DN dn: path[Len(dn)] is the
\* root, each entry is a child of the next and matches its RDN
Chains(dn) ==
    {path \in [1..Len(dn) -> DOMAIN entries] :
        /\ path[Len(dn)] = root_identifier
        /\ \A i \in 1..(Len(dn) - 1) : path[i] \in entries[path[i + 1]].children
        /\ \A i \in 1..Len(dn) : matches_rdn(entries[path[i]], dn[i])}

\* C22: find_by_dn of a DN of one or more RDNs returns Found or NotFound; it
\* returns Found exactly when a chain of entries from the root matches the
\* DN, and the entry it carries is the end of such a chain, whichever of the
\* children match on the way.
C22_FoundIffChain ==
    \A c \in Conns :
        pc[c] = "found" =>
            LET r == loc[c].ret[1] IN
            /\ r.tag \in {"Found", "NotFound"}
            /\ r.tag = "Found" <=> Chains(loc[c].dn) # {}
            /\ r.tag = "Found" =>
                \E path \in Chains(loc[c].dn) : entries[path[1]] = r.entry[1]

\* a DN of three RDNs has been found although a child of the root matches the
\* second RDN and has no child matching the first
C22_Witness ==
    \E c \in Conns :
        /\ pc[c] = "found"
        /\ Len(loc[c].dn) = 3
        /\ loc[c].ret[1].tag = "Found"
        /\ \E k \in entries[root_identifier].children :
            /\ matches_rdn(entries[k], loc[c].dn[2])
            /\ \A j \in entries[k].children : ~matches_rdn(entries[j], loc[c].dn[1])

\* C23: for a DN whose RDN attribute OIDs are all defined in the schema,
\* create_normalised_dn of the rendered text succeeds and yields the DN.
C23_ParseRenderedDn ==
    \A c \in Conns :
        /\ pc[c] = "parsed"
        /\ \A i \in 1..Len(loc[c].dn) : \A j \in 1..Len(loc[c].dn[i]) :
                get_attribute(loc[c].dn[i][j][1]) # {}
        => loc[c].ret[1] = Some(loc[c].dn)

\* C24: get_normalised_attributes of a map whose keys are OIDs of the schema
\* succeeds and returns the same keys with the same values.
C24_NormaliseOidMap ==
    \A c \in Conns :
        /\ pc[c] = "normalised"
        /\ \A key \in DOMAIN loc[c].attributes : get_attribute(key[1]) # {}
        => /\ loc[c].ret[1] # Nothing
           /\ DOMAIN loc[c].ret[1][1] = {key[1] : key \in DOMAIN loc[c].attributes}
           /\ \A key \in DOMAIN loc[c].attributes :
                loc[c].ret[1][1][key[1]] = loc[c].attributes[key]

\* the AddRequest has no attribute of type objectClass
NoObjectClass(req) ==
    \A i \in 1..Len(req.attributes) : req.attributes[i].type.text # Str("objectClass")

\* C25: each failure of an Add is answered with its fixed result code, and an
\* Add without objectClass whose parent is found is answered
\* undefinedAttributeType.
C25_ErrorResultCodes ==
    \A c \in Conns :
        HandledAdd(c) =>
            /\ loc[c].result = "InvalidAddRequest" =>
                    out[c] = AddResponseTo(c, "protocolError")
            /\ loc[c].result = "InvalidDN" =>
                    out[c] = AddResponseTo(c, "invalidDNSyntax")
            /\ loc[c].result = "EntryAlreadyExists" =>
                    out[c] = AddResponseTo(c, "entryAlreadyExists")
            /\ loc[c].result = "EntryDoesNotExists" =>
                    out[c] = AddResponseTo(c, "noSuchObject")
            /\ loc[c].result \in {"UnknownAttribute", "UnknownObjectClass"} =>
                    out[c] = AddResponseTo(c, "undefinedAttributeType")
            /\ loc[c].parent_res = "Found" /\ NoObjectClass(msg[c][1].req[1]) =>
                    /\ loc[c].result = "UnknownObjectClass"
                    /\ out[c] = AddResponseTo(c, "undefinedAttributeType")

\* an Add without objectClass under a parent that is found has been answered
C25_Witness ==
    \E c \in Conns :
        /\ HandledAdd(c)
        /\ loc[c].parent_res = "Found"
        /\ NoObjectClass(msg[c][1].req[1])
        /\ out[c] # <<>>

\* C26: after add_entry has called get_root_entry, the entry get_root_entry
\* returns has the ID root_identifier, and get_by_id(root_identifier) returns
\* that same entry.
C26_RootEntryHasRootId ==
    \A c \in Conns :
        pc[c] = "find_parent" =>
            /\ get_root_entry(entries)._id = Some(root_identifier)
            /\ get_by_id(entries, root_identifier) = Some(get_root_entry(entries))

\* C27: save returns the entry that is stored under the entry's ID after the
\* call, for the new entry add_entry saves and for the parent it saves again
\* with the new child.
C27_SaveReturnsStored ==
    [][\A c \in Conns :
        /\ pc[c] = "save_entry" /\ pc'[c] = "save_parent" =>
                /\ loc'[c].entry[1]._id # Nothing
                /\ get_by_id(entries', loc'[c].entry[1]._id[1]) = loc'[c].entry
        /\ pc[c] = "save_parent" /\ pc'[c] = "send" =>
                Some(SaveReturn(entries, loc'[c].parent[1], 0))
                    = get_by_id(entries', loc'[c].parent[1]._id[1])]_vars

\* C28: no step removes a stored ID or a member of an entry's children set,
\* and the two writes of an Add change nothing but the new entry (inserted)
\* and its parent (which gains the new entry's ID in children).
C28_NothingRemoved ==
    [][/\ \A k \in DOMAIN entries :
            /\ k \in DOMAIN entries'
            /\ entries[k].children \subseteq entries'[k].children
       /\ \A c \in Conns :
            /\ pc[c] = "save_entry" /\ pc'[c] = "save_parent" =>
                    \A k \in DOMAIN entries : entries'[k] = entries[k]
            /\ pc[c] = "save_parent" /\ pc'[c] = "send" =>
                    \A k \in DOMAIN entries :
                        \/ entries'[k] = entries[k]
                        \/ /\ k = loc[c].entry[1].parent
                           /\ entries'[k] =
                                [entries[k] EXCEPT
                                    !.children = @ \cup {loc[c].entry[1]._id[1]}]]_vars

\* C29: an entry that satisfies the schema and has a MAY attribute, not a MUST
\* one, with an empty value set passes validate_entry.
C29_EmptyMayAccepted ==
    \A c \in Conns :
        /\ pc[c] = "validated"
        /\ ValidEntry(loc[c].entry[1])
        /\ \E oid \in (DOMAIN loc[c].entry[1].attributes \cap MayOf(loc[c].entry[1]))
                        \ MustOf(loc[c].entry[1]) :
                loc[c].entry[1].attributes[oid] = {}
        => loc[c].result = "Ok"

\* C30: the entry an Add of DN d has stored holds, for every attribute, the
\* values of the pairs of d's first RDN together with the values the request
\* supplies for that attribute, and no others, and it is an entry
\* validate_entry accepts.
C30_StoredEntryMerged ==
    \A c \in Conns :
        pc[c] = "save_parent" =>
            LET rdn == loc[c].dn[1]
                e == entries[loc[c].entry[1]._id[1]]
                rdnVals(oid) == {rdn[i][2] : i \in {j \in 1..Len(rdn) : rdn[j][1] = oid}}
            IN \E attrs \in get_normalised_attributes(loc[c].attributes) :
                /\ attrs # Nothing
                /\ DOMAIN e.attributes =
                        {rdn[i][1] : i \in 1..Len(rdn)} \cup DOMAIN attrs[1]
                /\ \A oid \in DOMAIN e.attributes :
                        e.attributes[oid] =
                            rdnVals(oid) \cup (IF oid \in DOMAIN attrs[1]
                                               THEN attrs[1][oid] ELSE {})
                /\ "Ok" \in validate_entry([e EXCEPT !._id = Nothing])

\* an Add whose request supplies a value for the attribute of the RDN has
\* stored its entry
C30_Witness ==
    \E c \in Conns :
        /\ pc[c] = "save_parent"
        /\ loc[c].dn[1][1][1] \in DOMAIN entries[loc[c].entry[1]._id[1]].attributes
        /\ Cardinality(entries[loc[c].entry[1]._id[1]].attributes[loc[c].dn[1][1][1]]) = 2

\* C31 as stated: an Add whose parent DN is NotFound although the root matches
\* the last RDN of the parent DN reports, as the dn of EntryDoesNotExists, the
\* rendering of that last RDN alone.
C31_PartialDnIsLastRdn ==
    \A c \in Conns :
        LET rdns == parent_dn(loc[c].dn) IN
        /\ HandledAdd(c)
        /\ loc[c].parent_res = "NotFound"
        /\ matches_rdn(get_root_entry(entries), rdns[Len(rdns)])
        => loc[c].err_dn = Some(DnToString(<<rdns[Len(rdns)]>>))

\* C31 as amended: the dn reported is the rendering of the last RDN preceded
\* by the partial DN of the NotFound that the child of the root iterated last
\* returned for the RDNs before it (by nothing when the root has no children).
C31_PartialDnExtendsChild ==
    \A c \in Conns :
        LET rdns == parent_dn(loc[c].dn)
            root == get_root_entry(entries)
            below == IF root.children = {} THEN {<<>>}
                     ELSE {r.dn : r \in {x \in UNION {find_dn_recursive(entries, entries[k],
                                                SubSeq(rdns, 1, Len(rdns) - 1)) :
                                            k \in root.children \cap DOMAIN entries} :
                                        x.tag = "NotFound"}}
        IN
        /\ HandledAdd(c)
        /\ loc[c].parent_res = "NotFound"
        /\ matches_rdn(root, rdns[Len(rdns)])
        => \E dn \in below :
                loc[c].err_dn = Some(DnToString(Append(dn, rdns[Len(rdns)])))

\* an Add has reported a partial DN of two RDNs
C31_Witness ==
    \E c \in Conns :
        LET rdns == parent_dn(loc[c].dn) IN
        /\ HandledAdd(c)
        /\ loc[c].parent_res = "NotFound"
        /\ Len(rdns) = 3
        /\ loc[c].err_dn = Some(DnToString(SubSeq(rdns, 2, 3)))

\* the unread bytes are a part of the next PDU of the client and not all of it
Incomplete(c) ==
    LET n == Len(stream[c].bufs) IN
    /\ n < Len(stream[c].pdus)
    /\ Len(stream[c].rest) < Len(stream[c].pdus[n + 1])
    /\ stream[c].rest = SubSeq(stream[c].pdus[n + 1], 1, Len(stream[c].rest))

\* C32: when the stream ends within the header, the length bytes or the
\* payload of a PDU, the read of that PDU ends the loop of run with the error:
\* no buffer is handed on for it, no message is handled and nothing is written.
C32_ShortReadEndsSession ==
    [][\A c \in Conns :
        pc[c] = "read" /\ Incomplete(c) =>
            /\ pc'[c] = "failed"
            /\ stream'[c].bufs = stream[c].bufs
            /\ msg'[c] = msg[c]
            /\ out'[c] = out[c]]_vars

\* the session has ended on a stream that stops within the length bytes or
\* the payload of the second PDU
C32_Witness ==
    /\ pc[1] = "failed"
    /\ stream[1].bufs = <<stream[1].pdus[1]>>
    /\ Len(stream[1].rest) >= 3
    /\ Incomplete(1)

\* the bytes of a number, most significant first, with zeros in front up to n bytes
PadTo(bytes, n) == [i \in 1..(n - Len(bytes)) |-> 0] \o bytes

\* C33: the length read_ber_len returns is the length byte when its top bit is
\* clear, and else the big-endian value of the K bytes that follow it, for
\* every K.
C33_LengthIsBigEndianValue ==
    \A c \in Conns :
        pc[c] = "len_read" =>
            LET hdr == stream[c].pdus[1]
                res == loc[c].ret[1]
                K == hdr[2] - 128
                n == IF K > UsizeBytes THEN K ELSE UsizeBytes
            IN /\ res # Nothing
               /\ IF hdr[2] < 128
                  THEN PadTo(<<hdr[2]>>, UsizeBytes) = res[1].len
                  ELSE PadTo(SubSeq(hdr, 3, 2 + K), n) = PadTo(res[1].len, n)

\* C34: in every state, the states between the two saves of an Add included,
\* every ID in the children of a stored entry is the key of a stored entry,
\* and no find_by_dn of an Add has ended with the dangling-child InvalidEntry.
C34_ChildrenResolve ==
    /\ \A k \in DOMAIN entries : entries[k].children \subseteq DOMAIN entries
    /\ \A c \in Conns :
        loc[c].dn_res # "InvalidEntry" /\ loc[c].parent_res # "InvalidEntry"

\* one Add has linked its entry while the other has stored its entry and not
\* yet linked it
C34_Witness ==
    \E c, d \in Conns :
        /\ HandledAdd(c) /\ loc[c].result = "Ok"
        /\ pc[d] = "save_parent"
        /\ loc[d].entry[1]._id[1] \notin entries[loc[d].entry[1].parent].children
        /\ loc[c].entry[1]._id[1] \in entries[loc[c].entry[1].parent].children

\* the DNs of the entries the repository is seeded with
SeedDns ==
    { <<<< <<"dc-oid", Str("dev")>> >>>>,
      <<<< <<"dc-oid", Str("georgiboy")>> >>, << <<"dc-oid", Str("dev")>> >>>> }

\* C35 as stated: an Add is answered EntryAlreadyExists only if its DN is the
\* DN of a seeded entry or of an entry an earlier Add has stored.
C35_RejectedOnlyForSameDn ==
    \A c \in Conns :
        HandledAdd(c) /\ loc[c].result = "EntryAlreadyExists" =>
            loc[c].dn \in SeedDns \cup DOMAIN okAdds

\* C35 as amended: an Add is answered EntryAlreadyExists only if a chain of
\* stored entries from the root matches its DN, each entry holding some pair
\* of the RDN at its level among its values; and an Add that fails otherwise
\* after its DN was not found has no such chain.
C35_RejectedIffChainMatches ==
    \A c \in Conns :
        HandledAdd(c) =>
            /\ loc[c].result = "EntryAlreadyExists" => Chains(loc[c].dn) # {}
            /\ loc[c].dn_res = "NotFound" /\ loc[c].result # "Ok" =>
                    Chains(loc[c].dn) = {}

\* an Add of a DN no entry was stored under has been answered
\* EntryAlreadyExists: a sibling holds the value of its RDN among its values
C35_Witness ==
    \E c \in Conns :
        /\ HandledAdd(c)
        /\ loc[c].result = "EntryAlreadyExists"
        /\ loc[c].dn \notin SeedDns \cup DOMAIN okAdds

\* C36: the entry an Add has stored holds, under the OID of each attribute the
\* request names, the values given under every name of that attribute.
C36_AliasValuesJoined ==
    \A c \in Conns :
        pc[c] = "save_parent" =>
            LET e == entries[loc[c].entry[1]._id[1]] IN
            \A n \in DOMAIN loc[c].attributes \ {ObjectClassKey} :
                \A a \in find_attribute_by_name(n) :
                    /\ a.numericoid \in DOMAIN e.attributes
                    /\ loc[c].attributes[n] \subseteq e.attributes[a.numericoid]

\* C37: whatever the order in which the children sets are iterated, find_by_dn
\* of a DN on a repository returns the same outcome, Found or NotFound, and
\* the same partial DN in NotFound.
C37_FindIsDeterministic ==
    \A c \in Conns :
        pc[c] = "found" =>
            \A r \in find_by_dn(entries, loc[c].dn) :
                /\ r.tag = loc[c].ret[1].tag
                /\ r.dn = loc[c].ret[1].dn

\* the calls of find_dn_recursive that have not returned are never more than
\* the RDNs of the DN, and each has a shorter slice than its caller
WalkDepthBounded ==
    \A c \in Conns :
        /\ Len(loc[c].frames) <= Len(loc[c].dn)
        /\ \A i \in 1..Len(loc[c].frames) :
                loc[c].frames[i].n = Len(loc[c].dn) - i + 1

\* C38: on every repository, with cycles in the children links or without,
\* the calls of find_dn_recursive never nest deeper than the number of RDNs of
\* the DN, and find_by_dn returns, with the result find_by_dn has on that
\* repository.
C38_FindTerminates ==
    /\ []WalkDepthBounded
    /\ <>(pc[1] = "walked")
    /\ [](pc[1] = "walked" => loc[1].ret[1] \in find_by_dn(entries, loc[1].dn))

\* find_by_dn has returned NotFound for a DN of three RDNs on a repository in
\* which the root is a child of its own child
C38_Witness ==
    /\ pc[1] = "walked"
    /\ Len(loc[1].dn) = 3
    /\ loc[1].ret[1].tag = "NotFound"
    /\ \E k \in entries[root_identifier].children \ {root_identifier} :
            root_identifier \in entries[k].children

-----------------------------------------------------------------------------
(* Connections adding side by side, each thread scheduled fairly *)

\* the Adds of TreeMessages and an Add whose DN has a single RDN
FairMessages ==
    TreeMessages
    \cup {Message(1, "AddRequest", Some(AddRequest(Utf8(DnSingle), <<Person>>)))}

\* what the thread of connection c does once it has read a message: every
\* repository operation in it locks the mutex for its own duration only, so
\* that no step waits for another connection
Thread(c) ==
    \/ Step(c)
    \/ \E id \in new_random_id \ DOMAIN entries : AddSaveEntry(c, id)

NextFair ==
    \E c \in Conns :
        \/ \E m \in FairMessages : ReadMsg(c, m)
        \/ Thread(c)

\* a client need not send; a thread that can run is run
SpecFair ==
    /\ Init
    /\ [][NextFair]_vars
    /\ \A c \in Conns : WF_vars(Thread(c))

\* connection c has read an Add
AddStarted(c) == msg[c] # Nothing /\ msg[c][1].op = "AddRequest"

\* C39: each repository operation holds the mutex for its own duration only,
\* so for connections adding side by side every Add that was started returns
\* a result to run: none ends with its thread panicked, the position no
\* scheduling ever leaves
C39_StartedAddReturns ==
    \A c \in Conns : AddStarted(c) => pc[c] # "panicked"

====
